---- MODULE Spec2Model ----
(***************************************************************************)
(* A model of buddy (src/main.rs): a command-line front-end that scaffolds *)
(* a package (`new`), and delegates `build` / `run` to a bazel child       *)
(* process whose stderr it forwards line by line.                          *)
(*                                                                         *)
(* The state is the working directory's file tree, the position of main   *)
(* in its code, what it printed, and the child process with the pipe that  *)
(* carries its stderr.  Each action is one statement (or one straight run  *)
(* of statements) of main.rs; the child's steps interleave with them.      *)
(***************************************************************************)
EXTENDS Integers, Sequences, FiniteSets, TLC

VARIABLES
    fs,         \* the file tree: path -> node
    fs0,        \* the file tree when the current invocation started
    pc,         \* where main is
    cmd,        \* the parsed command line (Cli::parse)
    runs,       \* invocations so far
    faults,     \* I/O failures the environment produced in this invocation
    bazel_bin,  \* result of which("bazel")
    config,     \* the loaded Config
    stdout,     \* what this invocation printed, in order
    ret,        \* what new_package / build / run returned
    abort,      \* the panic message, "" while there is none
    argv,       \* the arguments given to Command
    child,      \* the bazel child process
    pipe,       \* stderr lines written by the child and not yet read
    readLines,  \* stderr lines main has taken from the pipe, in order
    eof         \* main's reader has seen the end of the child's stderr

vars == <<fs, fs0, pc, cmd, runs, faults, bazel_bin, config, stdout, ret,
          abort, argv, child, pipe, readLines, eof>>

----------------------------------------------------------------------------
(* Bounds of the model *)

\* invocations of the tool in one behaviour
MaxRuns == 2
\* I/O failures the environment may produce within one invocation
MaxFaults == 1
\* lines the child writes to its stderr
MaxLines == 2
\* extra targets on the command line
MaxArgs == 2

----------------------------------------------------------------------------
(* Paths and the file tree *)

\* package names given to `new`
Names == {"demo", "demo/sub", "notes"}

\* Path::new(package_name): the components of the path
Segs(name) ==
    CASE name = "demo"     -> <<"demo">>
      [] name = "demo/sub" -> <<"demo", "sub">>
      [] name = "notes"    -> <<"notes">>

\* the last component of the path alone
Basename(name) ==
    CASE name = "demo"     -> "demo"
      [] name = "demo/sub" -> "sub"
      [] name = "notes"    -> "notes"

\* PathBuf::join
Join(p, seg) == Append(p, seg)

Parent(p) == SubSeq(p, 1, Len(p) - 1)

IsPrefix(p, q) == Len(p) <= Len(q) /\ SubSeq(q, 1, Len(p)) = p

\* the six paths new_package creates for a name
PkgPaths(name) ==
    LET root == Segs(name) IN
    { root, Join(root, "src"), Join(root, "WORKSPACE"), Join(root, "Buddy.toml"),
      Join(Join(root, "src"), "BUILD"), Join(Join(root, "src"), "main.cc") }

ConfigPath == <<"Buddy.toml">>
BazelOut == <<"bazel-out">>

AllPaths ==
    UNION { PkgPaths(n) : n \in Names }
      \cup { ConfigPath, BazelOut, Join(BazelOut, "k8-fastbuild") }

Absent == [kind |-> "absent", text |-> <<>>]
DirNode == [kind |-> "dir", text |-> <<>>]
FileNode(text) == [kind |-> "file", text |-> text]

\* the working directory itself is <<>> and always a directory
IsDir(f, p) == p = <<>> \/ (p \in AllPaths /\ f[p].kind = "dir")

\* Path::exists
Exists(f, p) == p = <<>> \/ (p \in AllPaths /\ f[p].kind # "absent")

\* fs::create_dir: not recursive, fails on an existing path
CanCreateDir(f, p) == ~Exists(f, p) /\ IsDir(f, Parent(p))
CreateDir(f, p) == [f EXCEPT ![p] = DirNode]

\* File::create: creates or truncates
CanCreateFile(f, p) == IsDir(f, Parent(p)) /\ ~IsDir(f, p)
CreateFile(f, p) == [f EXCEPT ![p] = FileNode(<<>>)]

\* write! / write_all on the file just created
WriteFile(f, p, text) == [f EXCEPT ![p] = FileNode(text)]

\* fs::remove_dir_all
RemoveDirAll(f, p) ==
    [q \in AllPaths |-> IF IsPrefix(p, q) THEN Absent ELSE f[q]]

----------------------------------------------------------------------------
(* The scaffold templates (new_package).  A file's text is a sequence of   *)
(* pieces; the piece that carries the package name is the name as given.  *)

WorkspaceText == <<>>

DescriptorText(name, edition) ==
    << "[package]", "name =", name, "version =", "0.1.0",
       "edition =", edition, "[dependencies]" >>

BuddyTomlText(name) == DescriptorText(name, "2023")

\* faulty variant of BuildText: the target is named after the last component
BuildTextBasename(name) ==
    << "load(\"@rules_cc//cc:defs.bzl\", \"cc_binary\")",
       "cc_binary(", "name =", Basename(name), "srcs =", "main.cc", ")" >>

BuildText(name) ==
    << "load(\"@rules_cc//cc:defs.bzl\", \"cc_binary\")",
       "cc_binary(", "name =", name, "srcs =", "main.cc", ")" >>

MainCcText ==
    << "#include <ctime> <string> <iostream>",
       "std::string get_greet(const std::string& who)",
       "void print_localtime()",
       "int main(int argc, char** argv)" >>

----------------------------------------------------------------------------
(* The configuration (main, struct Config) *)

InvalidUtf8 == "\\xFF"

NoConfig == [loaded |-> FALSE, name |-> "", version |-> "", edition |-> ""]

DefaultConfig ==
    [loaded |-> TRUE, name |-> "default", version |-> "0.1.0", edition |-> "2021"]

\* contents Buddy.toml of the working directory may have
TomlKinds == {"missing", "valid", "bad_syntax", "missing_fields", "not_utf8"}

TomlNode(kind) ==
    CASE kind = "missing"        -> Absent
      [] kind = "valid"          -> FileNode(DescriptorText("demo", "2021"))
      [] kind = "bad_syntax"     -> FileNode(<<"[package", "name =", "demo">>)
      [] kind = "missing_fields" -> FileNode(<<"[package]", "name =", "demo", "[dependencies]">>)
      [] kind = "not_utf8"       -> FileNode(<<"[package]", InvalidUtf8>>)

\* fs::read_to_string: Err for a missing path, a directory, or bytes that are
\* not UTF-8
ReadToString(f, p) ==
    IF f[p].kind = "file" /\ \A i \in 1..Len(f[p].text) : f[p].text[i] # InvalidUtf8
    THEN [ok |-> TRUE, text |-> f[p].text]
    ELSE [ok |-> FALSE, text |-> <<>>]

\* toml::from_str::<Config>: every field of Package and the dependencies
\* table are required
ParseToml(text) ==
    IF /\ Len(text) = 8
       /\ text[1] = "[package]"
       /\ text[2] = "name ="
       /\ text[4] = "version ="
       /\ text[6] = "edition ="
       /\ text[8] = "[dependencies]"
    THEN [ok |-> TRUE,
          config |-> [loaded |-> TRUE, name |-> text[3],
                      version |-> text[5], edition |-> text[7]]]
    ELSE [ok |-> FALSE, config |-> NoConfig]

\* main, lines 223-233: the match on read_to_string
LoadConfig(f) ==
    LET r == ReadToString(f, ConfigPath) IN
    IF r.ok THEN ParseToml(r.text) ELSE [ok |-> TRUE, config |-> DefaultConfig]

----------------------------------------------------------------------------
(* The command line handed to bazel (build, run) *)

ArgVals == {"//src:app", "//lib/..."}

SeqsUpTo(S, n) == UNION { [1..k -> S] : k \in 0..n }

BuildArgs(targets) ==
    << "--output_base=target/build", "build", "--symlink_prefix=target/" >>
      \o (IF Len(targets) # 0 THEN targets ELSE << "//src/..." >>)

\* faulty variant of RunArgs: build's default target instead of the package's
RunArgsBuildDefault(targets, cfg) ==
    << "--output_base=target/build", "run", "--symlink_prefix=target/" >>
      \o (IF Len(targets) # 0 THEN targets ELSE << "//src/..." >>)

RunArgs(targets, cfg) ==
    << "--output_base=target/build", "run", "--symlink_prefix=target/" >>
      \o (IF Len(targets) # 0 THEN targets ELSE << "//src:" \o cfg.name >>)

----------------------------------------------------------------------------
(* The stderr lines and their formatting (the loop of build and run).     *)
(* A line is its sequence of characters, or a run of bytes that is not    *)
(* UTF-8.  Every character is one byte except WideChar, which is two.     *)

WideChar == "U+00E9"

LineInfoOk   == <<"I", "N", "F", "O", ":", " ", "o", "k">>
LineInfoBare == <<"I", "N", "F", "O", ":">>
LineInfoX    == <<"I", "N", "F", "O", ":", "x">>
LineInfoWide == <<"I", "N", "F", "O", ":", WideChar>>
LineWarn     == <<"w", "a", "r", "n">>
LineNotUtf8  == <<InvalidUtf8>>

Lines == {LineInfoOk, LineInfoBare, LineInfoX, LineInfoWide, LineWarn, LineNotUtf8}

\* BufRead::lines yields Err for a line that is not UTF-8
IsText(line) == \A i \in 1..Len(line) : line[i] # InvalidUtf8

\* the marker printed by "INFO:".green()
GreenInfo == "<green>INFO:</green>"

\* str::starts_with
StartsWith(line, prefix) ==
    Len(line) >= Len(prefix) /\ SubSeq(line, 1, Len(prefix)) = prefix

\* the prefix the code tests for (lines 116 and 158)
InfoPrefix == <<"I", "N", "F", "O", ":">>

Width(c) == IF c = WideChar THEN 2 ELSE 1

RECURSIVE ByteLen(_)
ByteLen(s) == IF s = <<>> THEN 0 ELSE Width(Head(s)) + ByteLen(Tail(s))

\* str::split_at(mid), mid a byte offset: panics when mid is past the end or
\* inside a character
SplitAt(line, mid) ==
    IF \E k \in 0..Len(line) : ByteLen(SubSeq(line, 1, k)) = mid
    THEN LET k == CHOOSE k \in 0..Len(line) : ByteLen(SubSeq(line, 1, k)) = mid IN
         [ok |-> TRUE, head |-> SubSeq(line, 1, k),
          tail |-> SubSeq(line, k + 1, Len(line))]
    ELSE [ok |-> FALSE, head |-> <<>>, tail |-> <<>>]

\* the body of `for line in reader.lines()`: what println! writes for one
\* line, or ok = FALSE when split_at panics
FormatLine(line) ==
    IF StartsWith(line, InfoPrefix)
    THEN LET s == SplitAt(line, 6) IN
         IF s.ok THEN [ok |-> TRUE, out |-> <<GreenInfo, " ">> \o s.tail]
                 ELSE [ok |-> FALSE, out |-> <<>>]
    ELSE [ok |-> TRUE, out |-> line]

----------------------------------------------------------------------------
(* The command line (struct Cli, enum Commands) *)

NewCommands == { [kind |-> "new", path |-> n, targets |-> <<>>] : n \in Names }

ExecCommands ==
    { [kind |-> k, path |-> "", targets |-> t] :
        k \in {"build", "run"}, t \in SeqsUpTo(ArgVals, MaxArgs) }

Commands == NewCommands \cup ExecCommands

NoCommand == [kind |-> "none", path |-> "", targets |-> <<>>]

NoChild == [state |-> "none", stderrOpen |-> FALSE, status |-> "none"]

\* exit statuses of the child: success, failure, killed by a signal
Statuses == {"0", "1", "signal"}

\* what println! wrote: a tag, a string and a line
Printed(t, s, l) == [t |-> t, s |-> s, l |-> l]

MsgNoBazel == "Bazel binary not found. See https://bazel.build/install"
MsgToml == "unwrap on Err: toml::de::Error"
MsgIo == "unwrap on Err: io::Error"
MsgSpawn == "Failed to execute command"
MsgLine == "unwrap on Err: stream did not contain valid UTF-8"
MsgSplit == "byte index 6 is out of bounds or not a char boundary"
MsgDelete == "Failed to delete folder"

----------------------------------------------------------------------------
(* The initial state: a working directory that holds a file `notes`,       *)
(* Buddy.toml in one of its possible states, and possibly a bazel-out left *)
(* by an earlier build; the tool has not been run.                         *)

InitFs(kind, leftover) ==
    [p \in AllPaths |->
        CASE p = ConfigPath  -> TomlNode(kind)
          [] p = <<"notes">> -> FileNode(<<"todo">>)
          [] IsPrefix(BazelOut, p) -> IF leftover THEN DirNode ELSE Absent
          [] OTHER           -> Absent]

Init ==
    /\ fs \in { InitFs(k, b) : k \in TomlKinds, b \in BOOLEAN }
    /\ fs0 = fs
    /\ pc = "idle"
    /\ cmd = NoCommand
    /\ runs = 0
    /\ faults = 0
    /\ bazel_bin = "unset"
    /\ config = NoConfig
    /\ stdout = <<>>
    /\ ret = "none"
    /\ abort = ""
    /\ argv = <<>>
    /\ child = NoChild
    /\ pipe = <<>>
    /\ readLines = <<>>
    /\ eof = FALSE

----------------------------------------------------------------------------
(* main *)

\* the process starts: Cli::parse has produced c
Start(c) ==
    /\ cmd' = c
    /\ fs0' = fs
    /\ runs' = runs + 1
    /\ pc' = "which"
    /\ faults' = 0
    /\ bazel_bin' = "unset"
    /\ config' = NoConfig
    /\ stdout' = <<>>
    /\ ret' = "none"
    /\ abort' = ""
    /\ argv' = <<>>
    /\ child' = NoChild
    /\ pipe' = <<>>
    /\ readLines' = <<>>
    /\ eof' = FALSE
    /\ UNCHANGED fs

\* the tool is run in the working directory
Invoke(c) ==
    /\ pc = "idle"
    /\ Start(c)

\* the tool is run again in the same directory after it has exited
InvokeAgain(c) ==
    /\ pc = "done"
    /\ child.state # "running"
    /\ runs < MaxRuns
    /\ Start(c)

\* a panic, or an unwrap of Err, ends the process
Panic(msg) ==
    /\ pc' = "done"
    /\ abort' = msg

\* faulty variant of Which: a missing bazel is noted and main goes on
WhichContinues ==
    /\ pc = "which"
    /\ \E found \in BOOLEAN :
         /\ bazel_bin' = IF found THEN "/usr/bin/bazel" ELSE "notfound"
         /\ pc' = "load"
         /\ UNCHANGED abort
    /\ UNCHANGED <<fs, fs0, cmd, runs, faults, config, stdout, ret, argv,
                   child, pipe, readLines, eof>>

\* lines 217-220
Which ==
    /\ pc = "which"
    /\ \E found \in BOOLEAN :
         IF found
         THEN /\ bazel_bin' = "/usr/bin/bazel"
              /\ pc' = "load"
              /\ UNCHANGED abort
         ELSE /\ bazel_bin' = "notfound"
              /\ Panic(MsgNoBazel)
    /\ UNCHANGED <<fs, fs0, cmd, runs, faults, config, stdout, ret, argv,
                   child, pipe, readLines, eof>>

\* lines 222-235: load the configuration and print it
Load ==
    /\ pc = "load"
    /\ LET r == LoadConfig(fs) IN
         IF r.ok
         THEN /\ config' = r.config
              /\ stdout' = Append(stdout, Printed("config", r.config.name,
                                       <<r.config.version, r.config.edition>>))
              /\ pc' = "dispatch"
              /\ UNCHANGED abort
         ELSE /\ Panic(MsgToml)
              /\ UNCHANGED <<config, stdout>>
    /\ UNCHANGED <<fs, fs0, cmd, runs, faults, bazel_bin, ret, argv,
                   child, pipe, readLines, eof>>

\* lines 237-241: the match on cli.command
Dispatch ==
    /\ pc = "dispatch"
    /\ pc' = IF cmd.kind = "new" THEN "new_package" ELSE "spawn"
    /\ UNCHANGED <<fs, fs0, cmd, runs, faults, bazel_bin, config, stdout, ret,
                   abort, argv, child, pipe, readLines, eof>>

----------------------------------------------------------------------------
(* new_package *)

\* what the run keeps while new_package works on the file tree
NewFrame == <<fs0, cmd, runs, bazel_bin, config, argv, child, pipe, readLines, eof>>

\* a `?` on Err: new_package returns Err and main's unwrap panics
NewFails ==
    /\ ret' = "Err"
    /\ Panic(MsgIo)

\* faulty variant of NewPackage: the path is not tested
NewPackageNoCheck ==
    /\ pc = "new_package"
    /\ stdout' = Append(stdout, Printed("created", cmd.path, <<>>))
    /\ pc' = "create_dir"
    /\ UNCHANGED <<ret, abort, fs, faults>>
    /\ UNCHANGED NewFrame

\* lines 15-20 and 81-88: the test of the path and the line printed
NewPackage ==
    /\ pc = "new_package"
    /\ IF ~Exists(fs, Segs(cmd.path))
       THEN /\ stdout' = Append(stdout, Printed("created", cmd.path, <<>>))
            /\ pc' = "create_dir"
            /\ UNCHANGED <<ret, abort>>
       ELSE /\ stdout' = Append(stdout, Printed("exists", cmd.path, <<>>))
            /\ ret' = "Ok"
            /\ pc' = "done"
            /\ UNCHANGED abort
    /\ UNCHANGED <<fs, faults>>
    /\ UNCHANGED NewFrame

\* one fs::create_dir(p)?, then on to `next`
CreateDirStep(at, p, next) ==
    /\ pc = at
    /\ \E io \in {"ok", "fail"} :
         /\ io = "fail" => faults < MaxFaults
         /\ IF io = "ok" /\ CanCreateDir(fs, p)
            THEN /\ fs' = CreateDir(fs, p)
                 /\ pc' = next
                 /\ UNCHANGED <<ret, abort, faults>>
            ELSE /\ NewFails
                 /\ faults' = IF io = "fail" THEN faults + 1 ELSE faults
                 /\ UNCHANGED fs
    /\ UNCHANGED stdout
    /\ UNCHANGED NewFrame

\* one File::create(p)? followed by the write of `text`?, then on to `next`;
\* when `last`, new_package returns Ok(())
WriteFileStep(at, p, text, next, last) ==
    /\ pc = at
    /\ \E io \in {"ok", "create_fails", "write_fails"} :
         /\ io # "ok" => faults < MaxFaults
         /\ IF io # "create_fails" /\ CanCreateFile(fs, p)
            THEN IF io = "ok"
                 THEN /\ fs' = WriteFile(CreateFile(fs, p), p, text)
                      /\ pc' = next
                      /\ ret' = IF last THEN "Ok" ELSE ret
                      /\ UNCHANGED <<abort, faults>>
                 ELSE /\ fs' = CreateFile(fs, p)
                      /\ NewFails
                      /\ faults' = faults + 1
            ELSE /\ NewFails
                 /\ faults' = IF io = "create_fails" THEN faults + 1 ELSE faults
                 /\ UNCHANGED fs
    /\ UNCHANGED stdout
    /\ UNCHANGED NewFrame

\* line 21
CreatePackageDir ==
    CreateDirStep("create_dir", Segs(cmd.path), "create_src")

\* line 22
CreateSrcDir ==
    CreateDirStep("create_src", Join(Segs(cmd.path), "src"), "write_workspace")

\* lines 24-25
WriteWorkspace ==
    WriteFileStep("write_workspace", Join(Segs(cmd.path), "WORKSPACE"),
                  WorkspaceText, "write_toml", FALSE)

\* lines 27-37
WriteBuddyToml ==
    WriteFileStep("write_toml", Join(Segs(cmd.path), "Buddy.toml"),
                  BuddyTomlText(cmd.path), "write_build", FALSE)

\* lines 39-50
WriteBuild ==
    WriteFileStep("write_build", Join(Join(Segs(cmd.path), "src"), "BUILD"),
                  BuildText(cmd.path), "write_main", FALSE)

\* lines 52-80
WriteMainCc ==
    WriteFileStep("write_main", Join(Join(Segs(cmd.path), "src"), "main.cc"),
                  MainCcText, "done", TRUE)

----------------------------------------------------------------------------
(* build and run: the two functions differ only in the arguments *)

\* lines 92-104 (build) and 134-146 (run)
CommandArgs ==
    IF cmd.kind = "build" THEN BuildArgs(cmd.targets)
                          ELSE RunArgs(cmd.targets, config)

\* lines 106-112 and 148-154: spawn the child with its stderr piped
Spawn ==
    /\ pc = "spawn"
    /\ argv' = CommandArgs
    /\ \E spawned \in BOOLEAN :
         IF spawned
         THEN /\ child' = [state |-> "running", stderrOpen |-> TRUE, status |-> "none"]
              /\ pc' = "read"
              /\ UNCHANGED abort
         ELSE /\ Panic(MsgSpawn)
              /\ UNCHANGED child
    /\ UNCHANGED <<fs, fs0, cmd, runs, faults, bazel_bin, config, stdout, ret,
                   pipe, readLines, eof>>

\* lines 114-122 and 156-164: one turn of the loop, on the next line of the pipe
ReadLine ==
    /\ pc = "read"
    /\ pipe # <<>>
    /\ LET line == Head(pipe)
           f == FormatLine(line) IN
         /\ pipe' = Tail(pipe)
         /\ readLines' = Append(readLines, line)
         /\ IF ~IsText(line)
            THEN /\ Panic(MsgLine)
                 /\ UNCHANGED stdout
            ELSE IF f.ok
            THEN /\ stdout' = Append(stdout, Printed("line", "", f.out))
                 /\ UNCHANGED <<pc, abort>>
            ELSE /\ Panic(MsgSplit)
                 /\ UNCHANGED stdout
    /\ UNCHANGED <<fs, fs0, cmd, runs, faults, bazel_bin, config, ret, argv,
                   child, eof>>

\* the loop ends when every writer of the pipe has closed it
ReadEof ==
    /\ pc = "read"
    /\ pipe = <<>>
    /\ ~child.stderrOpen
    /\ eof' = TRUE
    /\ pc' = "cleanup"
    /\ UNCHANGED <<fs, fs0, cmd, runs, faults, bazel_bin, config, stdout, ret,
                   abort, argv, child, pipe, readLines>>

\* faulty variant of Cleanup: a child that exited with a failure is an error
CleanupChecksStatus ==
    /\ pc = "cleanup"
    /\ IF child.status \in {"1", "signal"}
       THEN /\ ret' = "Err"
            /\ Panic("unwrap on Err: exit status")
       ELSE /\ ret' = "Ok"
            /\ pc' = "done"
            /\ UNCHANGED abort
    /\ fs' = IF Exists(fs, BazelOut) THEN RemoveDirAll(fs, BazelOut) ELSE fs
    /\ UNCHANGED <<fs0, cmd, runs, faults, bazel_bin, config, stdout, argv,
                   child, pipe, readLines, eof>>

\* lines 124-130 and 166-172: remove bazel-out if it is there, return Ok(())
Cleanup ==
    /\ pc = "cleanup"
    /\ IF Exists(fs, BazelOut)
       THEN \E io \in {"ok", "fail"} :
              /\ io = "fail" => faults < MaxFaults
              /\ IF io = "ok"
                 THEN /\ fs' = RemoveDirAll(fs, BazelOut)
                      /\ ret' = "Ok"
                      /\ pc' = "done"
                      /\ UNCHANGED <<abort, faults>>
                 ELSE /\ Panic(MsgDelete)
                      /\ faults' = faults + 1
                      /\ UNCHANGED <<fs, ret>>
       ELSE /\ ret' = "Ok"
            /\ pc' = "done"
            /\ UNCHANGED <<fs, abort, faults>>
    /\ UNCHANGED <<fs0, cmd, runs, bazel_bin, config, stdout, argv,
                   child, pipe, readLines, eof>>

----------------------------------------------------------------------------
(* The child process (bazel): what the code above can observe of it *)

ParentFrame == <<fs0, pc, cmd, runs, faults, bazel_bin, config, stdout, ret,
                 abort, argv, readLines, eof>>

\* the child writes a line to its stderr while main still holds the read end
ChildEmit(line) ==
    /\ child.state = "running"
    /\ child.stderrOpen
    /\ pc = "read"
    /\ Len(readLines) + Len(pipe) < MaxLines
    /\ pipe' = Append(pipe, line)
    /\ UNCHANGED <<fs, child>>
    /\ UNCHANGED ParentFrame

\* the child closes its stderr and keeps running
ChildCloseStderr ==
    /\ child.state = "running"
    /\ child.stderrOpen
    /\ child' = [child EXCEPT !.stderrOpen = FALSE]
    /\ UNCHANGED <<fs, pipe>>
    /\ UNCHANGED ParentFrame

\* the child leaves bazel-out in the working directory
ChildMakeBazelOut ==
    /\ child.state = "running"
    /\ ~Exists(fs, BazelOut)
    /\ fs' = [fs EXCEPT ![BazelOut] = DirNode,
                        ![Join(BazelOut, "k8-fastbuild")] = DirNode]
    /\ UNCHANGED <<child, pipe>>
    /\ UNCHANGED ParentFrame

\* the child exits; its stderr is closed with it
ChildExit(status) ==
    /\ child.state = "running"
    /\ child' = [state |-> "exited", stderrOpen |-> FALSE, status |-> status]
    /\ UNCHANGED <<fs, pipe>>
    /\ UNCHANGED ParentFrame

----------------------------------------------------------------------------
(* The specifications *)

MainSteps == Which \/ Load \/ Dispatch

NewSteps ==
    \/ NewPackage
    \/ CreatePackageDir
    \/ CreateSrcDir
    \/ WriteWorkspace
    \/ WriteBuddyToml
    \/ WriteBuild
    \/ WriteMainCc

ExecSteps == Spawn \/ ReadLine \/ ReadEof \/ Cleanup

ChildSteps ==
    \/ \E line \in Lines : ChildEmit(line)
    \/ ChildCloseStderr
    \/ ChildMakeBazelOut
    \/ \E status \in Statuses : ChildExit(status)

\* one invocation of the tool, with any command
Next ==
    \/ \E c \in Commands : Invoke(c)
    \/ MainSteps
    \/ NewSteps
    \/ ExecSteps
    \/ ChildSteps

Spec == Init /\ [][Next]_vars

\* successive invocations of `new` in the same working directory
NextSeq ==
    \/ \E c \in NewCommands : Invoke(c)
    \/ \E c \in NewCommands : InvokeAgain(c)
    \/ MainSteps
    \/ NewSteps

SpecSeq == Init /\ [][NextSeq]_vars

----------------------------------------------------------------------------
(* Vocabulary of the properties *)

Pkg == Segs(cmd.path)

InNew == cmd.kind = "new"
InExec == cmd.kind \in {"build", "run"}

\* new_package has been called and has returned (Ok or Err)
NewFinished == InNew /\ config.loaded /\ pc = "done"

\* the lines the read loop printed, in order (the configuration comes first)
OutLines == SelectSeq(stdout, LAMBDA e : e.t = "line")

\* every line the child has written so far
Emitted == readLines \o pipe

HasPrinted(tag) == \E i \in 1..Len(stdout) : stdout[i].t = tag

\* the two directories and four files of a package, the name as given in the
\* descriptor's name field and in the target's name
TreeComplete(f, name) ==
    LET root == Segs(name)
        src == Join(root, "src") IN
    /\ f[root].kind = "dir"
    /\ f[src].kind = "dir"
    /\ f[Join(root, "WORKSPACE")] = FileNode(<<>>)
    /\ f[Join(root, "Buddy.toml")].kind = "file"
    /\ Len(f[Join(root, "Buddy.toml")].text) = 8
    /\ f[Join(root, "Buddy.toml")].text[2] = "name ="
    /\ f[Join(root, "Buddy.toml")].text[3] = name
    /\ f[Join(src, "BUILD")].kind = "file"
    /\ Len(f[Join(src, "BUILD")].text) = 7
    /\ f[Join(src, "BUILD")].text[3] = "name ="
    /\ f[Join(src, "BUILD")].text[4] = name
    /\ f[Join(src, "main.cc")].kind = "file"
    /\ \E i \in 1..Len(f[Join(src, "main.cc")].text) :
         f[Join(src, "main.cc")].text[i] = "std::string get_greet(const std::string& who)"

\* the paths whose node differs between two trees
Changed(f, g) == { p \in AllPaths : f[p] # g[p] }

\* the rule for one line as the documentation words it: the 6-character
\* prefix "INFO: " is replaced by the marker and one space
InfoSpace == <<"I", "N", "F", "O", ":", " ">>
DocumentedFormat(line) ==
    IF StartsWith(line, InfoSpace)
    THEN <<GreenInfo, " ">> \o SubSeq(line, 7, Len(line))
    ELSE line

\* the tail of the argument vector: the targets given, or the default one
GivenOrDefault ==
    IF cmd.targets # <<>> THEN cmd.targets
    ELSE IF cmd.kind = "build" THEN << "//src/..." >>
    ELSE << "//src:" \o config.name >>

----------------------------------------------------------------------------
(* C1 *)

\* C1: when the path given to `new` exists (file or directory) as the
\* invocation starts, the file tree never differs from the tree at the start
\* and new_package returns Ok; this covers the second of two `new` with the
\* same name, whose start is the tree the first one left.
C1_ExistingPathUntouched ==
    (InNew /\ Exists(fs0, Pkg)) =>
        /\ fs = fs0
        /\ abort # MsgIo
        /\ NewFinished => ret = "Ok"

\* a second `new demo` has returned after the first created the package
C1_Witness ==
    /\ runs = 2
    /\ NewFinished
    /\ cmd.path = "demo"
    /\ TreeComplete(fs0, "demo")
    /\ ret = "Ok"
    /\ HasPrinted("exists")

----------------------------------------------------------------------------
(* C2 *)

----------------------------------------------------------------------------
(* C3 *)

\* C3 as claimed: the child is started with the two flags first, then the
\* subcommand, then the targets given or the default target.
C3_FlagsBeforeSubcommand ==
    (InExec /\ child.state # "none") =>
        argv = << "--output_base=target/build", "--symlink_prefix=target/", cmd.kind >>
                 \o GivenOrDefault

\* C3 amended: the argument vector is --output_base=target/build, the
\* subcommand (build or run), --symlink_prefix=target/, and then the targets
\* given, verbatim and in order, or the one default target when none is given:
\* //src/... for build, //src:<config.package.name> for run, which is
\* //src:default when there is no Buddy.toml.
C3_SubcommandBetweenFlags ==
    (InExec /\ child.state # "none") =>
        /\ argv = << "--output_base=target/build", cmd.kind, "--symlink_prefix=target/" >>
                    \o GivenOrDefault
        /\ (cmd.kind = "run" /\ cmd.targets = <<>> /\ fs[ConfigPath].kind = "absent")
              => argv[4] = "//src:default"

\* `run` with no targets and a Buddy.toml naming demo has started the child
C3_Witness ==
    /\ cmd.kind = "run"
    /\ cmd.targets = <<>>
    /\ child.state = "running"
    /\ config.name = "demo"
    /\ argv[4] = "//src:demo"

----------------------------------------------------------------------------
(* C4 *)

\* C4: every line of text read from the child's stderr is printed by the
\* documented rule (marker, space and remainder for the 6-character prefix
\* "INFO: ", unchanged otherwise), and formatting never panics.
C4_DocumentedFormatting ==
    /\ abort # MsgSplit
    /\ \A i \in 1..Len(readLines) :
         IsText(readLines[i]) =>
            /\ i <= Len(OutLines)
            /\ OutLines[i].l = DocumentedFormat(readLines[i])

----------------------------------------------------------------------------
(* C5 *)

\* C5: without Buddy.toml the default record is used; with a Buddy.toml whose
\* content does not parse into a configuration (bad syntax, missing fields,
\* unreadable content) no configuration is ever loaded, so the process ends
\* before the subcommand and the default never stands in for a file.
C5_DefaultOnlyWhenMissing ==
    /\ (fs[ConfigPath].kind = "absent" /\ config.loaded) => config = DefaultConfig
    /\ (fs[ConfigPath].kind = "file" /\ ~ParseToml(fs[ConfigPath].text).ok) =>
          /\ ~config.loaded
          /\ pc \in {"idle", "which", "load", "done"}

----------------------------------------------------------------------------
(* C6 *)

\* C6: when bazel is not found on the path the process has panicked with
\* nothing done: no configuration loaded or printed, the file tree as at the
\* start (bazel-out included), no child, no subcommand entered.
C6_NoBazelNothingRuns ==
    bazel_bin = "notfound" =>
        /\ pc = "done"
        /\ abort = MsgNoBazel
        /\ config = NoConfig
        /\ stdout = <<>>
        /\ fs = fs0
        /\ child = NoChild
        /\ argv = <<>>
        /\ ret = "none"

\* `build` was invoked where a bazel-out exists, and bazel was not found
C6_Witness ==
    /\ bazel_bin = "notfound"
    /\ cmd.kind = "build"
    /\ pc = "done"
    /\ Exists(fs, BazelOut)

----------------------------------------------------------------------------
(* C7 *)

\* C7: the check for bazel-out comes after the child has exited: whenever
\* build or run has returned, the child has exited, and no bazel-out it left
\* is still there.
C7_CleanupAfterChildExit ==
    (InExec /\ ret = "Ok") =>
        /\ child.state = "exited"
        /\ ~Exists(fs, BazelOut)

----------------------------------------------------------------------------
(* C8 *)

\* C8 as claimed: once the child's stderr has been read to its end, build and
\* run return Ok.
C8_AlwaysOkAfterEof ==
    (InExec /\ eof /\ pc = "done") => (ret = "Ok" /\ abort = "")

\* C8 amended: once the child's stderr has been read to its end, build and
\* run return Ok whatever the child's exit status is (zero, non-zero, killed
\* by a signal, or not exited yet), except that the process panics with
\* "Failed to delete folder" when bazel-out exists and cannot be removed; the
\* exit status plays no part in either outcome.
C8_OkUnlessDeleteFails ==
    (InExec /\ eof /\ pc = "done") =>
        \/ (ret = "Ok" /\ abort = "")
        \/ (ret = "none" /\ abort = MsgDelete /\ Exists(fs, BazelOut))

\* build or run has returned Ok after the child exited with status 1
C8_Witness ==
    /\ InExec
    /\ eof
    /\ pc = "done"
    /\ child.state = "exited"
    /\ child.status = "1"
    /\ ret = "Ok"

----------------------------------------------------------------------------
(* C9 *)

\* C9: for every sequence of text lines the child writes, once build or run
\* is past its read loop it has printed one line for each line written, in
\* the child's order, and the child's stderr is closed and drained.
C9_OneOutputPerLine ==
    (InExec /\ child.state # "none" /\ pc \in {"cleanup", "done"}
        /\ \A i \in 1..Len(Emitted) : IsText(Emitted[i])) =>
        /\ pipe = <<>>
        /\ ~child.stderrOpen
        /\ Len(OutLines) = Len(Emitted)
        /\ \A i \in 1..Len(OutLines) : OutLines[i].l = FormatLine(Emitted[i]).out

----------------------------------------------------------------------------
(* C10 *)

\* C10: the line "Created binary (application) ... package" is on stdout only
\* once both directories and the four files exist, and never in a run that
\* an I/O error aborts.
C10_CreatedPrintedOnCompletion ==
    HasPrinted("created") =>
        /\ TreeComplete(fs, cmd.path)
        /\ abort # MsgIo

====
